---- MODULE Spec2Model ----
(***************************************************************************)
(* State-machine model of the WOPR VideoGen capability plugin              *)
(* (src/src/index.ts).                                                     *)
(*                                                                         *)
(* Text is modelled as a sequence of string fragments whose concatenation  *)
(* is the JavaScript string: a template literal becomes its literal pieces *)
(* and its interpolated values, in order.  Strings whose characters the    *)
(* code inspects (the confirmation answer, a non-JSON broker response) are *)
(* sequences of one-character fragments.  An optional value (a field that  *)
(* may be undefined) is None or Some(v).                                   *)
(*                                                                         *)
(* The handlers are async functions: each action is the code that runs     *)
(* between two awaits of host calls whose result the handler needs         *)
(* (ctx.inject, and the progress reply that precedes the dispatch).  The   *)
(* host's reply function is taken to resolve; a reply that ends a handler  *)
(* is part of the action that sends it.                                    *)
(***************************************************************************)
EXTENDS Integers, Sequences, FiniteSets, TLC

\* ------------------------------------------------------------------ bounds
NumProviders == 2        \* channel providers the host can know
MaxInits == 2            \* plugin lifetimes (init calls) in one behaviour
MaxIdleShutdowns == 1    \* shutdown calls counted while already shut down

Providers == 1..NumProviders

\* ------------------------------------------------------- values and text
NoCtx == 0                               \* pluginCtx = null
None == <<>>                             \* undefined / null
Some(v) == <<v>>
IsSome(o) == o # None
\* a ?? b ?? d on optional a and b with a defined fallback d
Coalesce3(a, b, d) == IF IsSome(a) THEN a[1] ELSE IF IsSome(b) THEN b[1] ELSE d
\* a ?? d
Coalesce2(a, d) == IF IsSome(a) THEN a[1] ELSE d

Range(s) == {s[i] : i \in DOMAIN s}
Occurrences(s, v) == Cardinality({i \in DOMAIN s : s[i] = v})

\* text contains the fragment w
Contains(text, w) == \E i \in DOMAIN text : text[i] = w
\* JavaScript truthiness of a string: false exactly for ""
IsEmptyText(text) == \A i \in DOMAIN text : text[i] = ""

\* the host returns its providers as an array; modelled in id order
RECURSIVE ProviderList(_)
ProviderList(S) ==
  IF S = {} THEN <<>>
  ELSE LET p == CHOOSE q \in S : \A r \in S : q <= r
       IN <<p>> \o ProviderList(S \ {p})

\* ------------------------------------------------------- configuration
\* VideoGenConfig: every field optional
MkConfig(provider, model, duration, aspectRatio, apiKey) ==
  [provider |-> provider, model |-> model, duration |-> duration,
   aspectRatio |-> aspectRatio, apiKey |-> apiKey]

ConfigDefault == MkConfig(Some("replicate"), Some("minimax-video"), Some("5"), Some("16:9"), None)
ConfigEmpty == MkConfig(None, None, None, None, None)
ConfigByok == MkConfig(Some("custom"), Some("wan-2.1"), Some("10"), Some("9:16"), Some("r8_key"))

ConfigSet == {ConfigDefault, ConfigEmpty, ConfigByok}
\* the API key field of the settings form left empty
ConfigBlankKey == MkConfig(Some("replicate"), None, Some("10"), None, Some(""))

VARIABLES
  pluginCtx,              \* module variable: the host context, NoCtx when null
  registeredProviderIds,  \* module variable: ids the command was registered on
  cleanups,               \* module variable: unsubscribe functions (by lifetime)
  config,                 \* init's closure constant: ctx.getConfig() at init
  epoch,                  \* number of init calls so far; names the host context
  channelProviders,       \* host: the channel providers it currently knows
  commands,               \* host: provider -> it carries the "video" command
  hostConfig,             \* host: the stored plugin configuration
  registry,               \* host: listener / capability / schema registrations
  calls,                  \* this lifetime's calls into the host, counted
  seen,                   \* providers getChannelProviders returned this lifetime
  idleShutdowns,          \* shutdown calls made while pluginCtx was null
  event,                  \* the event last delivered to the "*" listener
  cmd,                    \* /video invocations: slot -> the handler's frame
  tool                    \* A2A tool invocations: slot -> the handler's frame

lifeVars == <<pluginCtx, registeredProviderIds, cleanups, config, epoch,
              channelProviders, commands, hostConfig, registry, calls, seen,
              idleShutdowns, event>>
handlerVars == <<cmd, tool>>
vars == <<pluginCtx, registeredProviderIds, cleanups, config, epoch,
          channelProviders, commands, hostConfig, registry, calls, seen,
          idleShutdowns, event, cmd, tool>>

NoCalls ==
  [registerCommand |-> [p \in Providers |-> 0],
   unregisterCommand |-> [p \in Providers |-> 0],
   unsubscribe |-> 0,
   unregisterCapabilityProvider |-> 0,
   unregisterConfigSchema |-> 0]

\* an event the callback ran on: its type and the pluginCtx the callback found
Delivered(type, ctx) == [type |-> type, ctx |-> ctx]
NoEvent == Delivered("", NoCtx)

NoRegistry == [listeners |-> {}, capability |-> FALSE, schema |-> FALSE, a2a |-> FALSE]

InitLife ==
  /\ pluginCtx = NoCtx
  /\ registeredProviderIds = <<>>
  /\ cleanups = <<>>
  /\ config = ConfigEmpty
  /\ epoch = 0
  /\ channelProviders = Providers
  /\ commands = [p \in Providers |-> FALSE]
  /\ hostConfig \in ConfigSet
  /\ registry = NoRegistry
  /\ calls = NoCalls
  /\ seen = {}
  /\ idleShutdowns = 0
  /\ event = NoEvent

\* ------------------------------------------------------------ lifecycle
\* provider.registerCommand on each provider of ps not yet in ids, then push
RegisterOn(ps, cmds) == [p \in Providers |-> cmds[p] \/ p \in Range(ps)]
CountRegister(ps, n) == [p \in Providers |-> n[p] + Occurrences(ps, p)]

\* plugin.init(ctx).  The host calls it on an uninitialized plugin only.
init ==
  /\ pluginCtx = NoCtx
  /\ epoch < MaxInits
  /\ epoch' = epoch + 1
  /\ pluginCtx' = epoch + 1
  /\ config' = hostConfig
  /\ LET ps == ProviderList(channelProviders) IN
       /\ commands' = RegisterOn(ps, commands)
       /\ registeredProviderIds' = registeredProviderIds \o ps
       /\ calls' = [NoCalls EXCEPT !.registerCommand = CountRegister(ps, @)]
       /\ seen' = channelProviders
  /\ registry' = [listeners |-> registry.listeners \cup {epoch + 1},
                  capability |-> TRUE, schema |-> TRUE, a2a |-> TRUE]
  /\ cleanups' = Append(cleanups, epoch + 1)
  /\ idleShutdowns' = 0
  /\ UNCHANGED <<channelProviders, hostConfig>>
  /\ UNCHANGED <<event, handlerVars>>

\* shutdown's loop stopping after the first registered id
ReachableFirstOnly(ids, known) ==
  IF ids # <<>> /\ ids[1] \in known THEN <<ids[1]>> ELSE <<>>

\* the providers shutdown reaches: getChannelProvider(id) returns one
Reachable(ids, known) == SelectSeq(ids, LAMBDA p : p \in known)

\* shutdown without its idempotence guard
shutdownUnguarded ==
  /\ pluginCtx = NoCtx => idleShutdowns < MaxIdleShutdowns
  /\ LET found == SelectSeq(registeredProviderIds, LAMBDA p : p \in channelProviders) IN
       /\ registry' = [registry EXCEPT !.listeners = @ \ Range(cleanups),
                                       !.capability = FALSE,
                                       !.schema = FALSE]
       /\ cleanups' = <<>>
       /\ commands' = [p \in Providers |-> commands[p] /\ p \notin Range(found)]
       /\ registeredProviderIds' = <<>>
       /\ calls' = [calls EXCEPT
                      !.unsubscribe = @ + Len(cleanups),
                      !.unregisterCommand = [p \in Providers |-> @[p] + Occurrences(found, p)],
                      !.unregisterCapabilityProvider = @ + 1,
                      !.unregisterConfigSchema = @ + 1]
       /\ pluginCtx' = NoCtx
       /\ idleShutdowns' = IF pluginCtx = NoCtx THEN idleShutdowns + 1 ELSE idleShutdowns
       /\ UNCHANGED <<config, epoch, channelProviders, hostConfig, seen>>
  /\ UNCHANGED <<event, handlerVars>>

\* shutdown without registeredProviderIds.length = 0
shutdownKeepsIds ==
  /\ IF pluginCtx = NoCtx
     THEN /\ idleShutdowns < MaxIdleShutdowns
          /\ idleShutdowns' = idleShutdowns + 1
          /\ UNCHANGED <<pluginCtx, registeredProviderIds, cleanups, config, epoch,
                         channelProviders, commands, hostConfig, registry, calls, seen>>
     ELSE LET found == Reachable(registeredProviderIds, channelProviders) IN
          /\ registry' = [registry EXCEPT !.listeners = @ \ Range(cleanups),
                                          !.capability = FALSE,
                                          !.schema = FALSE]
          /\ cleanups' = <<>>
          /\ commands' = [p \in Providers |-> commands[p] /\ p \notin Range(found)]
          /\ calls' = [calls EXCEPT
                         !.unsubscribe = @ + Len(cleanups),
                         !.unregisterCommand = [p \in Providers |-> @[p] + Occurrences(found, p)],
                         !.unregisterCapabilityProvider = @ + 1,
                         !.unregisterConfigSchema = @ + 1]
          /\ pluginCtx' = NoCtx
          /\ UNCHANGED <<registeredProviderIds, config, epoch, channelProviders,
                         hostConfig, seen, idleShutdowns>>
  /\ UNCHANGED <<event, handlerVars>>

\* plugin.shutdown()
shutdown ==
  /\ IF pluginCtx = NoCtx
     THEN /\ idleShutdowns < MaxIdleShutdowns
          /\ idleShutdowns' = idleShutdowns + 1
          /\ UNCHANGED <<pluginCtx, registeredProviderIds, cleanups, config, epoch,
                         channelProviders, commands, hostConfig, registry, calls, seen>>
     ELSE LET found == Reachable(registeredProviderIds, channelProviders) IN
          /\ registry' = [registry EXCEPT !.listeners = @ \ Range(cleanups),
                                          !.capability = FALSE,
                                          !.schema = FALSE]
          /\ cleanups' = <<>>
          /\ commands' = [p \in Providers |-> commands[p] /\ p \notin Range(found)]
          /\ registeredProviderIds' = <<>>
          /\ calls' = [calls EXCEPT
                         !.unsubscribe = @ + Len(cleanups),
                         !.unregisterCommand = [p \in Providers |-> @[p] + Occurrences(found, p)],
                         !.unregisterCapabilityProvider = @ + 1,
                         !.unregisterConfigSchema = @ + 1]
          /\ pluginCtx' = NoCtx
          /\ UNCHANGED <<config, epoch, channelProviders, hostConfig, seen, idleShutdowns>>
  /\ UNCHANGED <<event, handlerVars>>

EventTypes == {"capability:providerRegistered", "session:create", "undefined"}

\* the late-join callback without its registeredProviderIds.includes check
LateJoinersUnfiltered(known, ids) == ProviderList(known)

\* the providers of the host the late-join callback registers the command on
LateJoiners(known, ids) == ProviderList(known \ Range(ids))

\* the callback without its event?.type test
onProviderEventAnyType(type) ==
  /\ epoch > 0
  /\ IF pluginCtx = NoCtx
     THEN UNCHANGED <<commands, registeredProviderIds, calls, seen>>
     ELSE LET ps == LateJoiners(channelProviders, registeredProviderIds) IN
          /\ commands' = RegisterOn(ps, commands)
          /\ registeredProviderIds' = registeredProviderIds \o ps
          /\ calls' = [calls EXCEPT !.registerCommand = CountRegister(ps, @)]
          /\ seen' = seen \cup channelProviders
  /\ event' = Delivered(type, pluginCtx)
  /\ UNCHANGED <<pluginCtx, cleanups, config, epoch, channelProviders, hostConfig,
                 registry, idleShutdowns>>
  /\ UNCHANGED handlerVars

\* the callback init passes to ctx.events.on("*", ...), run on an event
onProviderEvent(type) ==
  /\ epoch > 0
  /\ IF pluginCtx = NoCtx \/ type # "capability:providerRegistered"
     THEN UNCHANGED <<commands, registeredProviderIds, calls, seen>>
     ELSE LET ps == LateJoiners(channelProviders, registeredProviderIds) IN
          /\ commands' = RegisterOn(ps, commands)
          /\ registeredProviderIds' = registeredProviderIds \o ps
          /\ calls' = [calls EXCEPT !.registerCommand = CountRegister(ps, @)]
          /\ seen' = seen \cup channelProviders
  /\ event' = Delivered(type, pluginCtx)
  /\ UNCHANGED <<pluginCtx, cleanups, config, epoch, channelProviders, hostConfig,
                 registry, idleShutdowns>>
  /\ UNCHANGED handlerVars

\* host: a channel provider comes online
providerJoin(p) ==
  /\ p \notin channelProviders
  /\ channelProviders' = channelProviders \cup {p}
  /\ UNCHANGED <<pluginCtx, registeredProviderIds, cleanups, config, epoch, commands,
                 hostConfig, registry, calls, seen, idleShutdowns>>
  /\ UNCHANGED <<event, handlerVars>>

\* host: a channel provider goes away (ctx.unregisterChannelProvider)
providerLeave(p) ==
  /\ p \in channelProviders
  /\ channelProviders' = channelProviders \ {p}
  /\ UNCHANGED <<pluginCtx, registeredProviderIds, cleanups, config, epoch, commands,
                 hostConfig, registry, calls, seen, idleShutdowns>>
  /\ UNCHANGED <<event, handlerVars>>

\* host: the stored configuration is changed (ctx.saveConfig, the settings UI)
saveConfig(c) ==
  /\ c # hostConfig
  /\ hostConfig' = c
  /\ UNCHANGED <<pluginCtx, registeredProviderIds, cleanups, config, epoch,
                 channelProviders, commands, registry, calls, seen, idleShutdowns>>
  /\ UNCHANGED <<event, handlerVars>>

\* ------------------------------------------------------------- strings
Whitespace == {" ", "\t", "\n", "\r"}
UpperCase == <<"A","B","C","D","E","F","G","H","I","J","K","L","M",
               "N","O","P","Q","R","S","T","U","V","W","X","Y","Z">>
LowerCase == <<"a","b","c","d","e","f","g","h","i","j","k","l","m",
               "n","o","p","q","r","s","t","u","v","w","x","y","z">>

\* String.prototype.toLowerCase on a sequence of characters
LowerChar(c) ==
  IF \E k \in DOMAIN UpperCase : UpperCase[k] = c
  THEN LowerCase[CHOOSE k \in DOMAIN UpperCase : UpperCase[k] = c]
  ELSE c
toLowerCase(s) == [k \in DOMAIN s |-> LowerChar(s[k])]

\* String.prototype.trim on a sequence of characters
RECURSIVE TrimStart(_)
TrimStart(s) == IF s # <<>> /\ Head(s) \in Whitespace THEN TrimStart(Tail(s)) ELSE s
RECURSIVE TrimEnd(_)
TrimEnd(s) ==
  IF s # <<>> /\ s[Len(s)] \in Whitespace THEN TrimEnd(SubSeq(s, 1, Len(s) - 1)) ELSE s
trim(s) == TrimEnd(TrimStart(s))

\* Array.prototype.join(" ")
RECURSIVE Join(_)
Join(parts) ==
  IF parts = <<>> THEN <<>>
  ELSE IF Len(parts) = 1 THEN <<parts[1]>>
  ELSE <<parts[1], " ">> \o Join(Tail(parts))

\* raw.startsWith("http"): a text that begins with http carries it as its
\* first fragment
StartsWithHttp(text) == text # <<>> /\ text[1] = "http"

\* ------------------------------------------------------ parseVideoArgs
\* ParseFrom without the i + 1 < args.length test: a flag in the final
\* position takes an undefined value instead of joining the prompt
RECURSIVE ParseFromUnbounded(_, _, _)
ParseFromUnbounded(args, i, acc) ==
  IF i > Len(args) THEN acc
  ELSE LET arg == args[i]
           value == IF i + 1 <= Len(args) THEN Some(args[i + 1]) ELSE None
       IN
       IF arg = "--model"
       THEN ParseFromUnbounded(args, i + 2, [acc EXCEPT !.model = value])
       ELSE IF arg = "--duration"
       THEN ParseFromUnbounded(args, i + 2, [acc EXCEPT !.duration = value])
       ELSE IF arg = "--aspect"
       THEN ParseFromUnbounded(args, i + 2, [acc EXCEPT !.aspectRatio = value])
       ELSE ParseFromUnbounded(args, i + 1, [acc EXCEPT !.promptParts = Append(@, arg)])

RECURSIVE ParseFrom(_, _, _)
ParseFrom(args, i, acc) ==
  IF i > Len(args) THEN acc
  ELSE LET arg == args[i] IN
       IF arg = "--model" /\ i + 1 <= Len(args)
       THEN ParseFrom(args, i + 2, [acc EXCEPT !.model = Some(args[i + 1])])
       ELSE IF arg = "--duration" /\ i + 1 <= Len(args)
       THEN ParseFrom(args, i + 2, [acc EXCEPT !.duration = Some(args[i + 1])])
       ELSE IF arg = "--aspect" /\ i + 1 <= Len(args)
       THEN ParseFrom(args, i + 2, [acc EXCEPT !.aspectRatio = Some(args[i + 1])])
       ELSE ParseFrom(args, i + 1, [acc EXCEPT !.promptParts = Append(@, arg)])

parseVideoArgs(args) ==
  LET r == ParseFrom(args, 1, [promptParts |-> <<>>, model |-> None,
                               duration |-> None, aspectRatio |-> None])
  IN [prompt |-> Join(r.promptParts), model |-> r.model,
      duration |-> r.duration, aspectRatio |-> r.aspectRatio]

\* ------------------------------------------------- parseSocketResponse
\* A raw broker string is either JSON text, modelled by the value it
\* parses to, or text JSON.parse rejects, modelled by its fragments.
JsonObject(url, error) == [json |-> "object", url |-> url, error |-> error, text |-> <<>>]
JsonNull == [json |-> "null", url |-> None, error |-> None, text |-> <<>>]
JsonNumber == [json |-> "number", url |-> None, error |-> None, text |-> <<>>]
PlainText(t) == [json |-> "invalid", url |-> None, error |-> None, text |-> t]

\* parseSocketResponse whose catch branch never takes the raw string as a URL
parseSocketResponseNoUrl(raw) ==
  IF raw.json # "invalid"
  THEN [kind |-> raw.json, url |-> raw.url, error |-> raw.error]
  ELSE [kind |-> "object", url |-> None, error |-> Some(raw.text)]

\* the value parseSocketResponse returns: kind "object", "null" or "number"
parseSocketResponse(raw) ==
  IF raw.json # "invalid"
  THEN [kind |-> raw.json, url |-> raw.url, error |-> raw.error]
  ELSE IF StartsWithHttp(raw.text)
       THEN [kind |-> "object", url |-> Some(raw.text), error |-> None]
       ELSE [kind |-> "object", url |-> None, error |-> Some(raw.text)]

\* result.error / result.url are truthy
Truthy(o) == IsSome(o) /\ ~IsEmptyText(o[1])

\* outcomes of an awaited ctx.inject
Resolve(raw) == [settled |-> "resolved", raw |-> raw, detail |-> <<>>]
Reject(detail) == [settled |-> "rejected", raw |-> JsonNull, detail |-> detail]

\* ------------------------------------------------------------ messages
\* (the source's backquote is written ' here)
InsufficientCredits == <<"insufficient_credits">>
CancelledMsg == <<"Video generation ", "cancelled", ".">>
CreditsMsg == <<"You don't have enough ", "credits", " for video generation. Add credits to continue.">>
FailedMsg == <<"Video generation failed", ". Please try again.">>
NoUrlMsg == <<"Video generation completed but no URL was returned.">>
NotInitializedMsg == <<"Plugin not initialized">>
NoUrlText == <<"No URL returned">>

UsageMsg ==
  <<"**Usage:** '", "/video <prompt>", "'\n\n**Options:**\n",
    "'--model <name>' - Model to use (minimax-video, wan-2.1, kling-1.6, luma-ray2)\n",
    "'--duration <seconds>' - Duration (3, 5, 10)\n",
    "'--aspect <ratio>' - Aspect ratio (16:9, 9:16, 1:1)\n\n",
    "**Sub-commands:**\n'/video settings' - Show current settings\n",
    "'/video models' - List available models">>

ModelsMsg ==
  <<"**", "Available Video Models", "**\n\n'", "minimax-video", "' - Minimax Video-01 (fast, good quality)\n'",
    "wan-2.1", "' - Wan 2.1 (high quality, slower)\n'",
    "kling-1.6", "' - Kling 1.6 (cinematic)\n'",
    "luma-ray2", "' - Luma Ray2 (photorealistic)\n\nUse: '/video <prompt> --model <name>'">>

SettingsMsg(c) ==
  <<"**", "Video Generation Settings", "**\n\n**Provider:** ", Coalesce2(c.provider, "replicate"),
    "\n**Model:** ", Coalesce2(c.model, "minimax-video"),
    "\n**Duration:** ", Coalesce2(c.duration, "5"), "s\n**Aspect Ratio:** ",
    Coalesce2(c.aspectRatio, "16:9"), "\n**BYOK:** ",
    IF IsSome(c.apiKey) /\ c.apiKey[1] # "" THEN "Configured" ELSE "Using hosted credits">>

ConfirmMsg(duration, aspectRatio) ==
  <<"This will consume credits to generate a video (approx. ", duration, "s at ",
    aspectRatio, "). Proceed? (yes/no)">>

ProgressMsg(prompt, model, duration, aspectRatio) ==
  <<"Generating video", "... This may take 30s-2min.\n**Prompt:** ">> \o prompt \o
  <<"\n**Model:** ", model, " | **Duration:** ", duration, "s | **Aspect:** ", aspectRatio>>

\* ------------------------------------------------------------- payload
\* Number(s) of the duration tokens the model uses; JSON.stringify writes
\* NaN as null
IntegerLiterals == {<<"3", 3>>, <<"5", 5>>, <<"10", 10>>, <<"", 0>>, <<"007", 7>>}
NumberOf(s) ==
  IF \E l \in IntegerLiterals : l[1] = s
  THEN [k |-> "integer", v |-> (CHOOSE l \in IntegerLiterals : l[1] = s)[2]]
  ELSE IF s = "5.5" THEN [k |-> "fraction", v |-> 55]
  ELSE [k |-> "NaN", v |-> 0]
JsonNumberOf(n) == IF n.k = "NaN" THEN [k |-> "null", v |-> 0] ELSE n

\* the spread without its truthiness test: the key as the configuration has it
ApiKeyFieldUntested(c) == c.apiKey

\* ...(config.apiKey ? { apiKey: config.apiKey } : {})
ApiKeyField(c) == IF IsSome(c.apiKey) /\ c.apiKey[1] # "" THEN c.apiKey ELSE None

\* JSON.stringify({capability, input}); an undefined field is left out
CapabilityRequest(prompt, model, duration, aspectRatio, apiKey) ==
  [capability |-> "video-generation",
   input |-> [prompt |-> prompt, model |-> model, duration |-> JsonNumberOf(duration),
              aspectRatio |-> aspectRatio, apiKey |-> apiKey]]

\* ---------------------------------------------------------- host calls
Reply(text) == [op |-> "reply", text |-> text]
InjectConfirm(message, from) ==
  [op |-> "inject", type |-> "__confirm__", message |-> message, from |-> from, silent |-> FALSE]
InjectCapability(payload, from) ==
  [op |-> "inject", type |-> "__capability__", payload |-> payload, from |-> from, silent |-> TRUE]
LogError(text, detail) == [op |-> "log.error", text |-> text, detail |-> detail]

IsReply(e) == e.op = "reply"
IsInject(e, type) == e.op = "inject" /\ e.type = type
IsLog(e) == e.op = "log.error"
Replies(trace) == SelectSeq(trace, IsReply)
Injects(trace, type) == SelectSeq(trace, LAMBDA e : IsInject(e, type))
Logs(trace) == SelectSeq(trace, IsLog)

\* ------------------------------------------------------------- inputs
\* the invocations a behaviour follows: one /video command or one tool call
SlotPlans == {[cmd |-> {"c1"}, tool |-> {}], [cmd |-> {}, tool |-> {"t1"}]}

Yes == <<"y", "e", "s">>
Y == <<"y">>

\* token lists the channel provider passes as cmdCtx.args
ChatArgs ==
  {<<>>, <<"settings">>, <<"models">>, <<"--aspect", "9:16">>,
   <<"a", "cat", "dancing">>, <<"a", "cat", "--model", "wan-2.1">>,
   <<"a", "bird", "--duration", "10">>}

\* what the awaited "__confirm__" inject resolves to: undefined, chosen
\* strings, and every string of at most MaxAnswerLen characters of AnswerChars
MaxAnswerLen == 2
AnswerChars == {"y", "Y", "n", " "}
ShortAnswers == UNION {[1..n -> AnswerChars] : n \in 0..MaxAnswerLen}
ConfirmAnswers ==
  {None, Some(Yes), Some(<<" ", "Y", "e", "S", "\n">>), Some(<<"\t", "y", "E", "s">>),
   Some(<<"n", "o">>), Some(<<"y", "e", "s", "!">>), Some(<<"y", "e">>),
   Some(<<"y", " ", "e", "s">>), Some(<<"o", "k">>)}
  \cup {Some(a) : a \in ShortAnswers}

VideoUrl == <<"https://example.com/video.mp4">>
\* what the awaited "__capability__" inject settles to
BrokerOutcomes ==
  {Resolve(JsonObject(Some(VideoUrl), None)),
   Resolve(JsonObject(None, Some(InsufficientCredits))),
   Resolve(JsonObject(None, Some(<<"model_unavailable">>))),
   Resolve(JsonObject(None, Some(<<"quota_exceeded">>))),
   Resolve(JsonObject(None, None)),
   Resolve(JsonNull),
   Resolve(PlainText(<<"http", "s://cdn.example.com/video.mp4">>)),
   Resolve(PlainText(<<"boom">>)),
   Resolve(PlainText(<<>>)),
   Reject(<<"socket hang up">>)}

\* arguments an agent passes to generate_video
MkToolArgs(prompt, model, duration, aspectRatio) ==
  [prompt |-> prompt, model |-> model, duration |-> duration, aspectRatio |-> aspectRatio]
NoToolArgs == MkToolArgs(None, None, None, None)
ToolArgs ==
  {MkToolArgs(Some(<<"a sunset">>), None, None, None),
   MkToolArgs(Some(<<"a sunset">>), Some("kling-1.6"), Some(NumberOf("3")), Some("1:1"))}

\* inputs of the request-construction specification: every list of at most
\* MaxTokens tokens of Tokens, the lists above and chosen longer ones
MaxTokens == 3
Tokens == {"--model", "--duration", "--aspect", "settings", "cat"}
TokenLists == UNION {[1..n -> Tokens] : n \in 0..MaxTokens}
RequestArgs ==
  TokenLists \cup ChatArgs \cup
  {<<"a", "bird", "--duration", "abc">>, <<"a", "bird", "--duration", "5.5">>,
   <<"a", "bird", "--duration", "3", "--duration", "10">>,
   <<"models", "--model", "cat">>, <<"a", "cat", "--aspect">>}
RequestAnswers == {Some(Yes), Some(<<"n", "o">>)}
RequestConfigs == ConfigSet \cup {ConfigBlankKey}
\* generate_video arguments: the prompt missing, empty, blank or given
RequestToolArgs ==
  {MkToolArgs(prompt, model, duration, aspectRatio) :
     prompt \in {None, Some(<<"">>), Some(<<" ", " ">>), Some(<<"a sunset">>)},
     model \in {None, Some("kling-1.6")},
     duration \in {None, Some(NumberOf("3")), Some(NumberOf("5.5"))},
     aspectRatio \in {None, Some("1:1")}}

\* ------------------------------------------------- /video command handler
IdleCmd ==
  [pc |-> "idle", args |-> <<>>, ctx |-> NoCtx, config |-> ConfigEmpty,
   confirmation |-> None, outcome |-> None, trace |-> <<>>]
IdleTool ==
  [pc |-> "idle", name |-> "", args |-> NoToolArgs, ctx |-> NoCtx, outcome |-> None,
   result |-> None, trace |-> <<>>]

InitHandlers ==
  \E plan \in SlotPlans :
    /\ cmd = [i \in plan.cmd |-> IdleCmd]
    /\ tool = [j \in plan.tool |-> IdleTool]

GetConfig == [op |-> "getConfig"]

\* const model/duration/aspectRatio of handleVideoCommand
ChatModel(args, c) == Coalesce3(parseVideoArgs(args).model, c.model, "minimax-video")
ChatDuration(args, c) == Coalesce3(parseVideoArgs(args).duration, c.duration, "5")
ChatAspect(args, c) == Coalesce3(parseVideoArgs(args).aspectRatio, c.aspectRatio, "16:9")

\* handleVideoCommand without the confirmation gate
handleVideoCommandUnconfirmed(i, args, ctx, c) ==
  LET parsed == parseVideoArgs(args)
      frame == [IdleCmd EXCEPT !.args = args, !.ctx = ctx, !.config = c]
  IN IF args # <<>> /\ args[1] = "settings"
     THEN [frame EXCEPT !.pc = "done", !.trace = <<GetConfig, Reply(SettingsMsg(c))>>]
     ELSE IF args # <<>> /\ args[1] = "models"
     THEN [frame EXCEPT !.pc = "done", !.trace = <<GetConfig, Reply(ModelsMsg)>>]
     ELSE IF IsEmptyText(parsed.prompt)
     THEN [frame EXCEPT !.pc = "done", !.trace = <<GetConfig, Reply(UsageMsg)>>]
     ELSE [frame EXCEPT
             !.pc = "progress",
             !.trace = <<GetConfig,
                         Reply(ProgressMsg(parsed.prompt, ChatModel(args, c),
                                           ChatDuration(args, c), ChatAspect(args, c)))>>]

\* handleVideoCommand without its two sub-command branches
handleVideoCommandNoSubcommands(i, args, ctx, c) ==
  LET parsed == parseVideoArgs(args)
      frame == [IdleCmd EXCEPT !.args = args, !.ctx = ctx, !.config = c]
  IN IF IsEmptyText(parsed.prompt)
     THEN [frame EXCEPT !.pc = "done", !.trace = <<GetConfig, Reply(UsageMsg)>>]
     ELSE [frame EXCEPT
             !.pc = "confirm",
             !.trace = <<GetConfig,
                         InjectConfirm(ConfirmMsg(ChatDuration(args, c), ChatAspect(args, c)), i)>>]

\* handleVideoCommand without the empty-prompt check
handleVideoCommandNoUsage(i, args, ctx, c) ==
  LET frame == [IdleCmd EXCEPT !.args = args, !.ctx = ctx, !.config = c]
  IN IF args # <<>> /\ args[1] = "settings"
     THEN [frame EXCEPT !.pc = "done", !.trace = <<GetConfig, Reply(SettingsMsg(c))>>]
     ELSE IF args # <<>> /\ args[1] = "models"
     THEN [frame EXCEPT !.pc = "done", !.trace = <<GetConfig, Reply(ModelsMsg)>>]
     ELSE [frame EXCEPT
             !.pc = "confirm",
             !.trace = <<GetConfig,
                         InjectConfirm(ConfirmMsg(ChatDuration(args, c), ChatAspect(args, c)), i)>>]

\* handleVideoCommand up to its first awaited inject: the frame it leaves
handleVideoCommand(i, args, ctx, c) ==
  LET parsed == parseVideoArgs(args)
      frame == [IdleCmd EXCEPT !.args = args, !.ctx = ctx, !.config = c]
  IN IF args # <<>> /\ args[1] = "settings"
     THEN [frame EXCEPT !.pc = "done", !.trace = <<GetConfig, Reply(SettingsMsg(c))>>]
     ELSE IF args # <<>> /\ args[1] = "models"
     THEN [frame EXCEPT !.pc = "done", !.trace = <<GetConfig, Reply(ModelsMsg)>>]
     ELSE IF IsEmptyText(parsed.prompt)
     THEN [frame EXCEPT !.pc = "done", !.trace = <<GetConfig, Reply(UsageMsg)>>]
     ELSE [frame EXCEPT
             !.pc = "confirm",
             !.trace = <<GetConfig,
                         InjectConfirm(ConfirmMsg(ChatDuration(args, c), ChatAspect(args, c)), i)>>]

\* the registered handler without its pluginCtx check
videoCommandUnguarded(i, args) ==
  /\ epoch > 0
  /\ cmd[i].pc = "idle"
  /\ cmd' = [cmd EXCEPT ![i] = handleVideoCommand(i, args, pluginCtx, hostConfig)]
  /\ UNCHANGED <<lifeVars, tool>>

\* the handler registered with provider.registerCommand
videoCommand(i, args) ==
  /\ epoch > 0
  /\ cmd[i].pc = "idle"
  /\ cmd' = [cmd EXCEPT ![i] =
               IF pluginCtx = NoCtx
               THEN [IdleCmd EXCEPT !.pc = "done", !.args = args]
               ELSE handleVideoCommand(i, args, pluginCtx, hostConfig)]
  /\ UNCHANGED <<lifeVars, tool>>

\* IsAffirmative without the trim
IsAffirmativeUntrimmed(confirmation) ==
  /\ IsSome(confirmation)
  /\ confirmation[1] # <<>>
  /\ toLowerCase(confirmation[1]) \in {Yes, Y}

\* confirmation && ["yes", "y"].includes(confirmation.trim().toLowerCase())
IsAffirmative(confirmation) ==
  /\ IsSome(confirmation)
  /\ confirmation[1] # <<>>
  /\ toLowerCase(trim(confirmation[1])) \in {Yes, Y}

\* onConfirmation without the return that ends the decline branch
onConfirmationFallsThrough(f, answer) ==
  LET progress == Reply(ProgressMsg(parseVideoArgs(f.args).prompt,
                                    ChatModel(f.args, f.config),
                                    ChatDuration(f.args, f.config),
                                    ChatAspect(f.args, f.config)))
  IN [f EXCEPT !.pc = "progress", !.confirmation = answer,
               !.trace = IF ~IsAffirmative(answer)
                         THEN @ \o <<Reply(CancelledMsg), progress>>
                         ELSE Append(@, progress)]

\* the code after the awaited "__confirm__" inject, up to the next await:
\* the frame it leaves
onConfirmation(f, answer) ==
  IF ~IsAffirmative(answer)
  THEN [f EXCEPT !.pc = "done", !.confirmation = answer,
                 !.trace = Append(@, Reply(CancelledMsg))]
  ELSE [f EXCEPT !.pc = "progress", !.confirmation = answer,
                 !.trace = Append(@, Reply(ProgressMsg(
                     parseVideoArgs(f.args).prompt,
                     ChatModel(f.args, f.config),
                     ChatDuration(f.args, f.config),
                     ChatAspect(f.args, f.config))))]

confirmSettled(i, answer) ==
  /\ cmd[i].pc = "confirm"
  /\ cmd' = [cmd EXCEPT ![i] = onConfirmation(cmd[i], answer)]
  /\ UNCHANGED <<lifeVars, tool>>

\* the awaited "__confirm__" inject rejects: handleVideoCommand rejects
confirmRejected(i) ==
  /\ cmd[i].pc = "confirm"
  /\ cmd' = [cmd EXCEPT ![i].pc = "rejected"]
  /\ UNCHANGED <<lifeVars, tool>>

ChatRequest(args, c) ==
  CapabilityRequest(Some(parseVideoArgs(args).prompt), ChatModel(args, c),
                    NumberOf(ChatDuration(args, c)), ChatAspect(args, c), ApiKeyField(c))

\* dispatch building its request from state shared between invocations:
\* the tokens and configuration of another invocation in flight, if any
dispatchShared(i) ==
  /\ cmd[i].pc = "progress"
  /\ LET others == {k \in DOMAIN cmd : k # i /\ cmd[k].pc # "idle"}
         k == IF others = {} THEN i ELSE CHOOSE x \in others : TRUE
     IN cmd' = [cmd EXCEPT ![i].pc = "capability",
                           ![i].trace = Append(@, InjectCapability(
                                           ChatRequest(cmd[k].args, cmd[k].config), i))]
  /\ UNCHANGED <<lifeVars, tool>>

\* after the awaited progress reply: build the request and inject it
dispatch(i) ==
  /\ cmd[i].pc = "progress"
  /\ cmd' = [cmd EXCEPT ![i].pc = "capability",
                        ![i].trace = Append(@, InjectCapability(
                                        ChatRequest(cmd[i].args, cmd[i].config), i))]
  /\ UNCHANGED <<lifeVars, tool>>

TypeError == <<"TypeError">>

\* ChatOutcome without the return that ends the error branch
ChatOutcomeNoReturn(outcome) ==
  IF outcome.settled = "rejected"
  THEN <<LogError("Video generation failed", outcome.detail), Reply(FailedMsg)>>
  ELSE LET result == parseSocketResponse(outcome.raw)
           tail == IF Truthy(result.url) THEN <<Reply(result.url[1])>> ELSE <<Reply(NoUrlMsg)>>
       IN IF result.kind = "null"
          THEN <<LogError("Video generation failed", TypeError), Reply(FailedMsg)>>
          ELSE IF Truthy(result.error)
          THEN IF result.error[1] = InsufficientCredits
               THEN <<Reply(CreditsMsg)>> \o tail
               ELSE <<LogError("Video generation API error", result.error[1]),
                      Reply(FailedMsg)>> \o tail
          ELSE tail

\* ChatOutcome replying with the broker's error text
ChatOutcomeLeaks(outcome) ==
  IF outcome.settled = "rejected"
  THEN <<LogError("Video generation failed", outcome.detail), Reply(FailedMsg)>>
  ELSE LET result == parseSocketResponse(outcome.raw) IN
       IF result.kind = "null"
       THEN <<LogError("Video generation failed", TypeError), Reply(FailedMsg)>>
       ELSE IF Truthy(result.error)
       THEN IF result.error[1] = InsufficientCredits
            THEN <<Reply(CreditsMsg)>>
            ELSE <<LogError("Video generation API error", result.error[1]),
                   Reply(<<"Video generation failed", ": ">> \o result.error[1])>>
       ELSE IF Truthy(result.url)
       THEN <<Reply(result.url[1])>>
       ELSE <<Reply(NoUrlMsg)>>

\* the host calls handleVideoCommand makes once "__capability__" has settled
ChatOutcome(outcome) ==
  IF outcome.settled = "rejected"
  THEN <<LogError("Video generation failed", outcome.detail), Reply(FailedMsg)>>
  ELSE LET result == parseSocketResponse(outcome.raw) IN
       IF result.kind = "null"
       THEN <<LogError("Video generation failed", TypeError), Reply(FailedMsg)>>
       ELSE IF Truthy(result.error)
       THEN IF result.error[1] = InsufficientCredits
            THEN <<Reply(CreditsMsg)>>
            ELSE <<LogError("Video generation API error", result.error[1]), Reply(FailedMsg)>>
       ELSE IF Truthy(result.url)
       THEN <<Reply(result.url[1])>>
       ELSE <<Reply(NoUrlMsg)>>

\* the code after the awaited "__capability__" inject
capabilitySettled(i, outcome) ==
  /\ cmd[i].pc = "capability"
  /\ cmd' = [cmd EXCEPT ![i].pc = "done",
                        ![i].outcome = Some(outcome),
                        ![i].trace = @ \o ChatOutcome(outcome)]
  /\ UNCHANGED <<lifeVars, tool>>

\* ------------------------------------------------------------ A2A tools
ToolResult(text, isError) == [content |-> text, isError |-> isError]

ToolRequest(args, c) ==
  CapabilityRequest(args.prompt,
                    Coalesce3(args.model, c.model, "minimax-video"),
                    IF IsSome(args.duration) THEN args.duration[1]
                    ELSE NumberOf(Coalesce2(c.duration, "5")),
                    Coalesce3(args.aspectRatio, c.aspectRatio, "16:9"),
                    ApiKeyField(c))

\* generate_video asking for confirmation before it dispatches
generateVideoConfirms(j, args) ==
  /\ registry.a2a
  /\ tool[j].pc = "idle"
  /\ tool' = [tool EXCEPT ![j] =
                IF pluginCtx = NoCtx
                THEN [IdleTool EXCEPT !.pc = "done", !.name = "generate_video", !.args = args,
                                      !.result = Some(ToolResult(NotInitializedMsg, TRUE))]
                ELSE [IdleTool EXCEPT !.pc = "capability", !.name = "generate_video",
                                      !.args = args, !.ctx = pluginCtx,
                                      !.trace = <<InjectConfirm(ConfirmMsg("5", "16:9"), j),
                                                  InjectCapability(ToolRequest(args, config), j)>>]]
  /\ UNCHANGED <<lifeVars, cmd>>

\* generate_video up to its awaited inject
generateVideo(j, args) ==
  /\ registry.a2a
  /\ tool[j].pc = "idle"
  /\ tool' = [tool EXCEPT ![j] =
                IF pluginCtx = NoCtx
                THEN [IdleTool EXCEPT !.pc = "done", !.name = "generate_video", !.args = args,
                                      !.result = Some(ToolResult(NotInitializedMsg, TRUE))]
                ELSE [IdleTool EXCEPT !.pc = "capability", !.name = "generate_video",
                                      !.args = args, !.ctx = pluginCtx,
                                      !.trace = <<InjectCapability(ToolRequest(args, config), j)>>]]
  /\ UNCHANGED <<lifeVars, cmd>>

\* the broker's answer makes generate_video take a branch that logs an error
ToolFails(outcome) ==
  \/ outcome.settled = "rejected"
  \/ parseSocketResponse(outcome.raw).kind = "null"
  \/ Truthy(parseSocketResponse(outcome.raw).error)

ToolLog(outcome) ==
  IF outcome.settled = "rejected" THEN LogError("Video generation error", outcome.detail)
  ELSE IF parseSocketResponse(outcome.raw).kind = "null"
  THEN LogError("Video generation error", TypeError)
  ELSE LogError("Video generation API error", parseSocketResponse(outcome.raw).error[1])

\* result.url ?? "No URL returned"
ToolText(outcome) == Coalesce2(parseSocketResponse(outcome.raw).url, NoUrlText)

\* generate_video after its awaited inject.  Every failing branch logs
\* through pluginCtx, the module variable, which shutdown may have nulled.
generateVideoSettled(j, outcome) ==
  /\ tool[j].pc = "capability"
  /\ tool' = [tool EXCEPT ![j] =
                IF ToolFails(outcome)
                THEN IF pluginCtx = NoCtx
                     THEN [@ EXCEPT !.pc = "rejected", !.outcome = Some(outcome)]
                     ELSE [@ EXCEPT !.pc = "done", !.outcome = Some(outcome),
                                    !.trace = Append(@, ToolLog(outcome)),
                                    !.result = Some(ToolResult(FailedMsg, TRUE))]
                ELSE [@ EXCEPT !.pc = "done", !.outcome = Some(outcome),
                               !.result = Some(ToolResult(ToolText(outcome), FALSE))]]
  /\ UNCHANGED <<lifeVars, cmd>>

ModelCatalog == <<"minimax-video", "wan-2.1", "kling-1.6", "luma-ray2">>

\* list_video_models
listVideoModels(j) ==
  /\ registry.a2a
  /\ tool[j].pc = "idle"
  /\ tool' = [tool EXCEPT ![j] =
                [IdleTool EXCEPT !.pc = "done", !.name = "list_video_models",
                                 !.ctx = pluginCtx,
                                 !.result = Some(ToolResult(ModelCatalog, FALSE))]]
  /\ UNCHANGED <<lifeVars, cmd>>

SettingsJson(c) ==
  <<Coalesce2(c.provider, "replicate"), Coalesce2(c.model, "minimax-video"),
    Coalesce2(c.duration, "5"), Coalesce2(c.aspectRatio, "16:9"),
    IF IsSome(c.apiKey) /\ c.apiKey[1] # "" THEN "true" ELSE "false">>

\* get_video_settings
getVideoSettings(j) ==
  /\ registry.a2a
  /\ tool[j].pc = "idle"
  /\ tool' = [tool EXCEPT ![j] =
                [IdleTool EXCEPT
                   !.pc = "done", !.name = "get_video_settings", !.ctx = pluginCtx,
                   !.trace = IF pluginCtx = NoCtx THEN <<>> ELSE <<GetConfig>>,
                   !.result = Some(ToolResult(
                       SettingsJson(IF pluginCtx = NoCtx THEN ConfigEmpty ELSE hostConfig),
                       FALSE))]]
  /\ UNCHANGED <<lifeVars, cmd>>

\* ------------------------------------------------------- specifications
Init == InitLife /\ InitHandlers

\* the request path: lifetimes, configuration changes and the handlers
Next ==
  \/ init
  \/ shutdown
  \/ \E c \in ConfigSet : saveConfig(c)
  \/ \E i \in DOMAIN cmd, args \in ChatArgs : videoCommand(i, args)
  \/ \E i \in DOMAIN cmd, answer \in ConfirmAnswers : confirmSettled(i, answer)
  \/ \E i \in DOMAIN cmd : confirmRejected(i)
  \/ \E i \in DOMAIN cmd : dispatch(i)
  \/ \E i \in DOMAIN cmd, outcome \in BrokerOutcomes : capabilitySettled(i, outcome)
  \/ \E j \in DOMAIN tool, args \in ToolArgs : generateVideo(j, args)
  \/ \E j \in DOMAIN tool, outcome \in BrokerOutcomes : generateVideoSettled(j, outcome)
  \/ \E j \in DOMAIN tool : listVideoModels(j)
  \/ \E j \in DOMAIN tool : getVideoSettings(j)

Spec == Init /\ [][Next]_vars

\* the registration lifecycle: lifetimes, providers joining and leaving,
\* events and configuration changes
NextLife ==
  \/ init
  \/ shutdown
  \/ \E type \in EventTypes : onProviderEvent(type)
  \/ \E p \in Providers : providerJoin(p)
  \/ \E p \in Providers : providerLeave(p)
  \/ \E c \in ConfigSet : saveConfig(c)

SpecLife == Init /\ [][NextLife]_vars

\* request construction: one lifetime, configuration changes, and the
\* handlers up to the capability dispatch, over the wider inputs
NextRequest ==
  \/ init
  \/ \E c \in RequestConfigs : saveConfig(c)
  \/ \E i \in DOMAIN cmd, args \in RequestArgs : videoCommand(i, args)
  \/ \E i \in DOMAIN cmd, answer \in RequestAnswers : confirmSettled(i, answer)
  \/ \E i \in DOMAIN cmd : dispatch(i)
  \/ \E j \in DOMAIN tool, args \in RequestToolArgs : generateVideo(j, args)

SpecRequest == Init /\ [][NextRequest]_vars

\* two /video invocations in flight at once, their awaited host calls
\* settling in any order
PairSlots == {"c1", "c2"}
PairArgs == {<<"settings">>, <<"a", "cat", "dancing">>, <<"a", "bird", "--duration", "10">>}
PairAnswers == {Some(Yes), Some(<<"n", "o">>)}
PairOutcomes ==
  {Resolve(JsonObject(Some(VideoUrl), None)),
   Resolve(JsonObject(None, Some(InsufficientCredits))),
   Reject(<<"socket hang up">>)}

InitPair ==
  /\ InitLife
  /\ cmd = [i \in PairSlots |-> IdleCmd]
  /\ tool = [j \in {} |-> IdleTool]

NextPair ==
  \/ init
  \/ \E c \in ConfigSet : saveConfig(c)
  \/ \E i \in DOMAIN cmd, args \in PairArgs : videoCommand(i, args)
  \/ \E i \in DOMAIN cmd, answer \in PairAnswers : confirmSettled(i, answer)
  \/ \E i \in DOMAIN cmd : dispatch(i)
  \/ \E i \in DOMAIN cmd, outcome \in PairOutcomes : capabilitySettled(i, outcome)

SpecPair == InitPair /\ [][NextPair]_vars

\* ================================================================ claims
\* the frame is past its awaited "__confirm__" inject, which resolved
Answered(f) ==
  /\ f.pc \in {"progress", "capability", "done"}
  /\ Injects(f.trace, "__confirm__") # <<>>

\* core is w up to the case of its letters
SameLetters(core, w) ==
  /\ Len(core) = Len(w)
  /\ \A k \in DOMAIN w :
       \/ core[k] = w[k]
       \/ \E n \in DOMAIN LowerCase : LowerCase[n] = w[k] /\ UpperCase[n] = core[k]

\* the answer is "yes" or "y" in any case, with whitespace around it
SaysYes(a) ==
  /\ IsSome(a)
  /\ LET s == a[1] IN
       \E m \in DOMAIN s, n \in DOMAIN s :
         /\ m <= n
         /\ \A k \in 1..(m - 1) : s[k] \in Whitespace
         /\ \A k \in (n + 1)..Len(s) : s[k] \in Whitespace
         /\ \E w \in {Yes, Y} : SameLetters(SubSeq(s, m, n), w)

IsProgress(e) == IsReply(e) /\ Contains(e.text, "Generating video")
Proceeded(f) == Replies(f.trace) # <<>> /\ IsProgress(Replies(f.trace)[1])
LastReply(f) == Replies(f.trace)[Len(Replies(f.trace))]

\* C1: a /video invocation whose confirmation answer is a decline sends
\* exactly one reply, the cancellation notice containing "cancelled", and
\* never issues a "__capability__" inject.
C1_DeclineCancels ==
  \A i \in DOMAIN cmd :
    LET f == cmd[i] IN
      (Answered(f) /\ ~SaysYes(f.confirmation)) =>
        /\ f.pc = "done"
        /\ Replies(f.trace) = <<Reply(CancelledMsg)>>
        /\ Contains(Replies(f.trace)[1].text, "cancelled")
        /\ Injects(f.trace, "__capability__") = <<>>

C1_Witness ==
  \E i \in DOMAIN cmd :
    /\ cmd[i].pc = "done"
    /\ cmd[i].args = <<"a", "cat", "dancing">>
    /\ cmd[i].confirmation = Some(<<"n", "o">>)
    /\ Len(Replies(cmd[i].trace)) = 1

\* C2: the answer is treated as affirmative (the handler goes on to the
\* progress notice) exactly when, trimmed and lower-cased, it is "yes" or
\* "y"; every other answer, empty or missing included, is treated as a
\* decline (the handler ends with the cancellation notice).
C2_AffirmativeIffYes ==
  \A i \in DOMAIN cmd :
    LET f == cmd[i] IN
      Answered(f) =>
        /\ Proceeded(f) <=> SaysYes(f.confirmation)
        /\ (f.pc = "done" /\ Replies(f.trace) = <<Reply(CancelledMsg)>>)
             <=> ~SaysYes(f.confirmation)

C2_Witness ==
  \E i \in DOMAIN cmd :
    /\ cmd[i].confirmation = Some(<<" ", "Y", "e", "S", "\n">>)
    /\ cmd[i].pc = "capability"
    /\ Proceeded(cmd[i])

\* the text is the URL the broker returned
IsReturnedUrl(f, text) ==
  /\ IsSome(f.outcome)
  /\ f.outcome[1].settled = "resolved"
  /\ \/ f.outcome[1].raw.url = Some(text)
     \/ f.outcome[1].raw.json = "invalid" /\ f.outcome[1].raw.text = text
IsErrorMessage(text) == text \in {CreditsMsg, FailedMsg}

\* the invocation was confirmed and has ended
Confirmed(f) == f.pc = "done" /\ Answered(f) /\ SaysYes(f.confirmation)

\* C3 as stated: after an affirmative answer the handler sends exactly two
\* replies, the progress notice and then the video URL or an error message.
C3_TwoRepliesUrlOrError ==
  \A i \in DOMAIN cmd :
    LET f == cmd[i] IN
      Confirmed(f) =>
        /\ Len(Replies(f.trace)) = 2
        /\ IsProgress(Replies(f.trace)[1])
        /\ \/ IsReturnedUrl(f, Replies(f.trace)[2].text)
           \/ IsErrorMessage(Replies(f.trace)[2].text)

\* C3 amended: after an affirmative answer the handler sends exactly two
\* replies, the progress notice and then the video URL, an error message or
\* the "completed but no URL" notice, whatever the broker returns or throws.
C3_TwoReplies ==
  \A i \in DOMAIN cmd :
    LET f == cmd[i] IN
      Confirmed(f) =>
        /\ Len(Replies(f.trace)) = 2
        /\ IsProgress(Replies(f.trace)[1])
        /\ \/ IsReturnedUrl(f, Replies(f.trace)[2].text)
           \/ IsErrorMessage(Replies(f.trace)[2].text)
           \/ Replies(f.trace)[2].text = NoUrlMsg

C3_Witness ==
  \E i \in DOMAIN cmd :
    /\ Confirmed(cmd[i])
    /\ cmd[i].outcome = Some(Reject(<<"socket hang up">>))
    /\ Replies(cmd[i].trace)[2] = Reply(FailedMsg)

\* C4: in a chat invocation a "__capability__" inject comes only after the
\* "__confirm__" inject of that invocation, answered affirmatively, and
\* after the progress notice.
C4_DispatchAfterConfirmAndProgress ==
  \A i \in DOMAIN cmd :
    LET f == cmd[i] IN
      \A k \in DOMAIN f.trace :
        IsInject(f.trace[k], "__capability__") =>
          /\ SaysYes(f.confirmation)
          /\ \E a \in 1..(k - 1), b \in 1..(k - 1) :
               /\ a < b
               /\ IsInject(f.trace[a], "__confirm__")
               /\ IsProgress(f.trace[b])

C4_Witness ==
  \E i \in DOMAIN cmd :
    /\ cmd[i].pc = "capability"
    /\ Injects(cmd[i].trace, "__capability__") # <<>>
    /\ cmd[i].args = <<"a", "cat", "--model", "wan-2.1">>

\* the error identifier the settled broker call normalizes to, if any
ErrorIdOf(o) ==
  IF o.settled = "resolved" /\ parseSocketResponse(o.raw).kind = "object"
     /\ Truthy(parseSocketResponse(o.raw).error)
  THEN parseSocketResponse(o.raw).error
  ELSE None

Mentions(text, id) == \E k \in DOMAIN id : Contains(text, id[k])
Logged(trace, id) == \E k \in DOMAIN trace : IsLog(trace[k]) /\ trace[k].detail = id

\* the frame ended on a broker error identifier other than insufficient_credits
OtherError(f) ==
  /\ f.pc = "done"
  /\ IsSome(f.outcome)
  /\ IsSome(ErrorIdOf(f.outcome[1]))
  /\ ErrorIdOf(f.outcome[1]) # Some(InsufficientCredits)

\* C5: for every broker error identifier other than insufficient_credits the
\* final chat reply and the generate_video result text are the one generic
\* message, no reply or result text contains the identifier, and the
\* identifier goes to the logger.
C5_ErrorIdNeverSurfaces ==
  /\ \A i \in DOMAIN cmd :
       LET f == cmd[i] IN
         OtherError(f) =>
           /\ LastReply(f) = Reply(FailedMsg)
           /\ \A k \in DOMAIN f.trace :
                IsReply(f.trace[k]) => ~Mentions(f.trace[k].text, ErrorIdOf(f.outcome[1])[1])
           /\ Logged(f.trace, ErrorIdOf(f.outcome[1])[1])
  /\ \A j \in DOMAIN tool :
       LET f == tool[j] IN
         OtherError(f) =>
           /\ f.result = Some(ToolResult(FailedMsg, TRUE))
           /\ ~Mentions(f.result[1].content, ErrorIdOf(f.outcome[1])[1])
           /\ Logged(f.trace, ErrorIdOf(f.outcome[1])[1])

C5_Witness ==
  \E i \in DOMAIN cmd :
    /\ OtherError(cmd[i])
    /\ ErrorIdOf(cmd[i].outcome[1]) = Some(<<"model_unavailable">>)
    /\ Logged(cmd[i].trace, <<"model_unavailable">>)

\* the frame ended on the broker error identifier insufficient_credits
CreditsError(f) ==
  /\ f.pc = "done"
  /\ IsSome(f.outcome)
  /\ ErrorIdOf(f.outcome[1]) = Some(InsufficientCredits)

\* C6: when the broker response normalizes to insufficient_credits, the
\* text surfaced to the caller, chat reply or generate_video result text,
\* is the add-credits message and not the generic failure message.
C6_CreditsMessageOnBothPaths ==
  /\ \A i \in DOMAIN cmd :
       CreditsError(cmd[i]) => LastReply(cmd[i]) = Reply(CreditsMsg)
  /\ \A j \in DOMAIN tool :
       CreditsError(tool[j]) => /\ IsSome(tool[j].result)
                                /\ tool[j].result[1].content = CreditsMsg

C8_ShutdownIdempotent ==
  /\ calls.unsubscribe <= 1
  /\ calls.unregisterCapabilityProvider <= 1
  /\ calls.unregisterConfigSchema <= 1
  /\ \A p \in Providers : calls.unregisterCommand[p] <= 1
  /\ epoch = 0 => calls = NoCalls
  /\ idleShutdowns > 0 =>
       pluginCtx = NoCtx /\ registeredProviderIds = <<>> /\ cleanups = <<>>

C8_Witness ==
  /\ epoch = 1
  /\ pluginCtx = NoCtx
  /\ idleShutdowns = 1
  /\ calls.unregisterCapabilityProvider = 1
  /\ \E p \in Providers : calls.unregisterCommand[p] = 1

\* C9: while the plugin is initialized, every channel provider the host
\* returned at init or at a late-join event has had the /video command
\* registered on it, and no provider has received registerCommand more than
\* once.
C9_RegisteredOnceOnEveryProvider ==
  pluginCtx # NoCtx =>
    \A p \in Providers :
      /\ calls.registerCommand[p] <= 1
      /\ p \in seen => calls.registerCommand[p] = 1 /\ commands[p]

C9_Witness ==
  /\ pluginCtx # NoCtx
  /\ registeredProviderIds = <<2, 1>>
  /\ seen = {1, 2}
  /\ calls.registerCommand[1] = 1

\* C10 as stated: once an initialized plugin has shut down, no channel
\* provider still carries the /video command, and the event listener, the
\* capability provider and the configuration schema are unregistered.
C10_NoProviderKeepsCommand ==
  (pluginCtx = NoCtx /\ epoch > 0) =>
    /\ \A p \in Providers : ~commands[p]
    /\ registry.listeners = {}
    /\ ~registry.capability
    /\ ~registry.schema

\* C10 amended: shutdown of an initialized plugin unregisters the /video
\* command from every provider it was registered on during that lifetime
\* that the host still returns for its id; a registered provider the host
\* no longer knows is skipped and keeps the command.  It also calls the
\* event unsubscribe function, unregisterCapabilityProvider and
\* unregisterConfigSchema, and clears its bookkeeping.
C10_ShutdownUnregistersKnownProviders ==
  [][(pluginCtx # NoCtx /\ pluginCtx' = NoCtx) =>
       /\ \A p \in Providers :
            calls.registerCommand[p] > 0 =>
              IF p \in channelProviders
              THEN ~commands'[p] /\ calls'.unregisterCommand[p] = 1
              ELSE commands'[p] = commands[p] /\ calls'.unregisterCommand[p] = 0
       /\ registry'.listeners = {}
       /\ ~registry'.capability
       /\ ~registry'.schema
       /\ calls'.unsubscribe = 1
       /\ calls'.unregisterCapabilityProvider = 1
       /\ calls'.unregisterConfigSchema = 1
       /\ registeredProviderIds' = <<>>
       /\ cleanups' = <<>>]_vars

C10_Witness ==
  /\ pluginCtx = NoCtx
  /\ epoch = 1
  /\ calls.registerCommand = [p \in Providers |-> 1]
  /\ calls.unregisterCommand[1] = 1
  /\ calls.unregisterCommand[2] = 0
  /\ commands[2]

\* ------------------------------------------------ request construction
\* the text is empty or only whitespace
IsBlank(text) == \A k \in DOMAIN text : text[k] \in Whitespace \cup {""}
\* the "__capability__" injects of a frame, and the input of the k-th
Dispatches(f) == Injects(f.trace, "__capability__")
Input(f, k) == Dispatches(f)[k].payload.input

\* C11: every capability dispatch, on the chat path and on the agent-tool
\* path, carries a prompt that is present and not blank; that is, a request
\* whose prompt is empty, whitespace only or missing never reaches a
\* "__capability__" inject.
C11_PromptNonEmptyBeforeDispatch ==
  /\ \A i \in DOMAIN cmd : \A k \in DOMAIN Dispatches(cmd[i]) :
       /\ IsSome(Input(cmd[i], k).prompt)
       /\ ~IsBlank(Input(cmd[i], k).prompt[1])
  /\ \A j \in DOMAIN tool : \A k \in DOMAIN Dispatches(tool[j]) :
       /\ IsSome(Input(tool[j], k).prompt)
       /\ ~IsBlank(Input(tool[j], k).prompt[1])

\* The reference scan.  Reading left to right, position k holds a consuming
\* flag when its token is one of the three flags, a token follows it and
\* position k is not itself the value of the flag before it.
Flags == {"--model", "--duration", "--aspect"}
RECURSIVE ConsumesAt(_, _)
ConsumesAt(args, k) ==
  /\ k \in DOMAIN args
  /\ args[k] \in Flags
  /\ k < Len(args)
  /\ ~ConsumesAt(args, k - 1)
ValueAt(args, k) == ConsumesAt(args, k - 1)
PlainAt(args) == {k \in DOMAIN args : ~ConsumesAt(args, k) /\ ~ValueAt(args, k)}
\* the tokens at the positions of keep, in their original order
TokensAt(args, keep) ==
  [m \in 1..Cardinality(keep) |->
     args[CHOOSE k \in keep : Cardinality({x \in keep : x < k}) = m - 1]]
\* tokens separated by single spaces
SpaceSeparated(tokens) ==
  [m \in 1..(IF tokens = <<>> THEN 0 ELSE 2 * Len(tokens) - 1) |->
     IF m % 2 = 1 THEN tokens[(m + 1) \div 2] ELSE " "]
RefPrompt(args) == SpaceSeparated(TokensAt(args, PlainAt(args)))
\* the value of a flag: the token its last consuming occurrence consumed
RefValue(args, flag) ==
  LET ks == {k \in DOMAIN args : ConsumesAt(args, k) /\ args[k] = flag}
  IN IF ks = {} THEN None
     ELSE Some(args[(CHOOSE k \in ks : \A x \in ks : x <= k) + 1])
RefParsed(args) ==
  [prompt |-> RefPrompt(args), model |-> RefValue(args, "--model"),
   duration |-> RefValue(args, "--duration"), aspectRatio |-> RefValue(args, "--aspect")]

IsSubcommand(args) == args # <<>> /\ args[1] \in {"settings", "models"}

\* C12: a /video invocation whose tokens leave an empty prompt and whose
\* first token is not a subcommand ends normally with exactly one reply,
\* the usage text containing "/video <prompt>", and issues no "__confirm__"
\* and no "__capability__" inject.
C12_UsageOnEmptyPrompt ==
  \A i \in DOMAIN cmd :
    LET f == cmd[i] IN
      (f.pc # "idle" /\ f.ctx # NoCtx /\ ~IsSubcommand(f.args) /\ RefPrompt(f.args) = <<>>) =>
        /\ f.pc = "done"
        /\ Len(Replies(f.trace)) = 1
        /\ Replies(f.trace)[1].text = UsageMsg
        /\ Contains(Replies(f.trace)[1].text, "/video <prompt>")
        /\ Injects(f.trace, "__confirm__") = <<>>
        /\ Dispatches(f) = <<>>

C12_Witness ==
  \E i \in DOMAIN cmd :
    /\ cmd[i].pc = "done"
    /\ cmd[i].args = <<"--duration", "--model">>
    /\ Replies(cmd[i].trace) = <<Reply(UsageMsg)>>

\* C13: parseVideoArgs equals the reference left-to-right scan on every
\* token list: a flag with a following token consumes that one token as its
\* value, a flag in the final position joins the prompt, and the remaining
\* tokens joined by single spaces, in order, are the prompt; the prompt,
\* model and aspect ratio a dispatch carries are the reference's.
C13_ParseEqualsReferenceScan ==
  \A i \in DOMAIN cmd :
    LET f == cmd[i] IN
      f.pc # "idle" =>
        /\ parseVideoArgs(f.args) = RefParsed(f.args)
        /\ \A k \in DOMAIN Dispatches(f) :
             /\ Input(f, k).prompt = Some(RefPrompt(f.args))
             /\ IsSome(RefValue(f.args, "--model")) =>
                  Input(f, k).model = RefValue(f.args, "--model")[1]
             /\ IsSome(RefValue(f.args, "--aspect")) =>
                  Input(f, k).aspectRatio = RefValue(f.args, "--aspect")[1]

C13_Witness ==
  \E i \in DOMAIN cmd :
    /\ cmd[i].pc = "capability"
    /\ cmd[i].args = <<"--model", "--aspect", "--duration">>
    /\ Input(cmd[i], 1).prompt = Some(<<"--duration">>)
    /\ Input(cmd[i], 1).model = "--aspect"

\* the override when given, else the stored value when set, else the default
Layered(override, stored, default) ==
  CASE IsSome(override) -> override[1]
    [] ~IsSome(override) /\ IsSome(stored) -> stored[1]
    [] OTHER -> default

\* C14: the model, duration and aspect ratio of a dispatched payload are the
\* caller's override when given, otherwise the value the host configuration
\* holds when the handler is invoked, otherwise minimax-video, 5 and 16:9,
\* on the chat path and on the generate_video path, also when the
\* configuration was changed after init.  (The /video handler reads the
\* configuration on invocation into the frame; generate_video dispatches in
\* the step that invokes it.)
C14_LayeredOverStoredConfig ==
  [][/\ \A i \in DOMAIN cmd :
          (cmd[i].pc = "idle" /\ cmd'[i].pc = "confirm") => cmd'[i].config = hostConfig
     /\ \A i \in DOMAIN cmd :
          (cmd[i].pc = "progress" /\ cmd'[i].pc = "capability") =>
            LET args == cmd[i].args
                c == cmd[i].config
                input == Input(cmd'[i], 1)
            IN /\ input.model = Layered(RefValue(args, "--model"), c.model, "minimax-video")
               /\ input.duration =
                    JsonNumberOf(NumberOf(Layered(RefValue(args, "--duration"), c.duration, "5")))
               /\ input.aspectRatio = Layered(RefValue(args, "--aspect"), c.aspectRatio, "16:9")
     /\ \A j \in DOMAIN tool :
          (tool[j].pc = "idle" /\ tool'[j].pc = "capability") =>
            LET args == tool'[j].args
                input == Input(tool'[j], 1)
            IN /\ input.model = Layered(args.model, hostConfig.model, "minimax-video")
               /\ input.duration =
                    IF IsSome(args.duration) THEN JsonNumberOf(args.duration[1])
                    ELSE JsonNumberOf(NumberOf(Layered(None, hostConfig.duration, "5")))
               /\ input.aspectRatio = Layered(args.aspectRatio, hostConfig.aspectRatio, "16:9")
    ]_vars

\* the frame's awaited "__capability__" inject resolved / rejected
Resolved(f) == IsSome(f.outcome) /\ f.outcome[1].settled = "resolved"
Threw(f) == IsSome(f.outcome) /\ f.outcome[1].settled = "rejected"
BeginsWithHttp(text) == Len(text) > 0 /\ SubSeq(text, 1, 1) = <<"http">>

\* parseSocketResponse gives the raw string the normal form the
\* specification describes
Normalized(raw) ==
  LET r == parseSocketResponse(raw) IN
    /\ raw.json = "object" => r.url = raw.url /\ r.error = raw.error
    /\ (raw.json = "invalid" /\ BeginsWithHttp(raw.text)) =>
         r.url = Some(raw.text) /\ r.error = None
    /\ (raw.json = "invalid" /\ ~BeginsWithHttp(raw.text)) =>
         r.url = None /\ r.error = Some(raw.text)

\* C15: parseSocketResponse normalizes every raw broker string: one that
\* parses as a JSON object yields the object's url and error; one that is
\* not JSON and starts with "http" yields itself as the url, and the chat
\* path's final reply is that string verbatim; any other string that is not
\* JSON yields itself as the error (which the chat path, unless it is empty
\* or the credits identifier, logs whole and answers with the generic
\* message).
C15_SocketResponseNormalized ==
  /\ \A i \in DOMAIN cmd :
       LET f == cmd[i] IN
         Resolved(f) =>
           LET raw == f.outcome[1].raw IN
             /\ Normalized(raw)
             /\ (raw.json = "invalid" /\ BeginsWithHttp(raw.text)) =>
                  LastReply(f) = Reply(raw.text)
             /\ (raw.json = "invalid" /\ ~BeginsWithHttp(raw.text)
                   /\ ~IsBlank(raw.text) /\ raw.text # InsufficientCredits) =>
                  Logged(f.trace, raw.text) /\ LastReply(f) = Reply(FailedMsg)
  /\ \A j \in DOMAIN tool :
       Resolved(tool[j]) => Normalized(tool[j].outcome[1].raw)

C15_Witness ==
  \E i \in DOMAIN cmd :
    /\ cmd[i].pc = "done"
    /\ cmd[i].outcome = Some(Resolve(PlainText(<<"http", "s://cdn.example.com/video.mp4">>)))
    /\ LastReply(cmd[i]) = Reply(<<"http", "s://cdn.example.com/video.mp4">>)

\* the key the configuration holds, if it holds a non-empty one
StoredKey(c) == IF c.apiKey \in {None, Some("")} THEN None ELSE c.apiKey

C17_DurationIsInteger ==
  /\ \A i \in DOMAIN cmd : \A k \in DOMAIN Dispatches(cmd[i]) :
       /\ Input(cmd[i], k).duration.k = "integer"
       /\ RefValue(cmd[i].args, "--duration") = Some("10") =>
            Input(cmd[i], k).duration.v = 10
  /\ \A j \in DOMAIN tool : \A k \in DOMAIN Dispatches(tool[j]) :
       Input(tool[j], k).duration.k = "integer"

\* C18: when the broker call throws or rejects, the chat path's final reply
\* is the generic failure message, generate_video returns that text with
\* isError true, the thrown detail goes to the logger and to no reply or
\* result, and the capability was dispatched once only.
C18_BrokerThrowSanitized ==
  /\ \A i \in DOMAIN cmd :
       LET f == cmd[i] IN
         Threw(f) =>
           /\ f.pc = "done"
           /\ LastReply(f) = Reply(FailedMsg)
           /\ \A k \in DOMAIN f.trace :
                IsReply(f.trace[k]) => ~Mentions(f.trace[k].text, f.outcome[1].detail)
           /\ Logged(f.trace, f.outcome[1].detail)
           /\ Len(Dispatches(f)) = 1
  /\ \A j \in DOMAIN tool :
       LET f == tool[j] IN
         Threw(f) =>
           /\ f.pc = "done"
           /\ f.result = Some(ToolResult(FailedMsg, TRUE))
           /\ Logged(f.trace, f.outcome[1].detail)
           /\ Len(Dispatches(f)) = 1

\* the broker's response, parsed as JSON, carries neither a url nor an error
NeitherUrlNorError(f) ==
  /\ Resolved(f)
  /\ f.outcome[1].raw.json # "invalid"
  /\ f.outcome[1].raw.url = None
  /\ f.outcome[1].raw.error = None

\* C19: a broker response that carries neither a url nor an error is not
\* treated as an error: the chat path's final reply is the "completed but
\* no URL" notice and generate_video returns a result without isError.
C19_NoUrlIsNeutral ==
  /\ \A i \in DOMAIN cmd :
       NeitherUrlNorError(cmd[i]) =>
         cmd[i].pc = "done" /\ LastReply(cmd[i]) = Reply(NoUrlMsg)
  /\ \A j \in DOMAIN tool :
       NeitherUrlNorError(tool[j]) =>
         /\ tool[j].pc = "done"
         /\ IsSome(tool[j].result)
         /\ ~tool[j].result[1].isError

\* C20: a /video invocation whose first token is "settings" or "models"
\* sends exactly one reply, the settings of the configuration read on
\* invocation or the model catalog, and issues no "__confirm__" and no
\* "__capability__" inject, whatever tokens follow.
C20_SubcommandsReplyOnce ==
  \A i \in DOMAIN cmd :
    LET f == cmd[i] IN
      (f.pc # "idle" /\ f.ctx # NoCtx /\ IsSubcommand(f.args)) =>
        /\ f.pc = "done"
        /\ Len(Replies(f.trace)) = 1
        /\ Injects(f.trace, "__confirm__") = <<>>
        /\ Dispatches(f) = <<>>
        /\ LET text == Replies(f.trace)[1].text IN
             IF f.args[1] = "settings"
             THEN /\ text = SettingsMsg(f.config)
                  /\ Contains(text, "Video Generation Settings")
                  /\ Contains(text, Layered(None, f.config.model, "minimax-video"))
             ELSE /\ text = ModelsMsg
                  /\ Contains(text, "Available Video Models")
                  /\ \A m \in Range(ModelCatalog) : Contains(text, m)

C20_Witness ==
  \E i \in DOMAIN cmd :
    /\ cmd[i].pc = "done"
    /\ cmd[i].args = <<"settings", "--model", "cat">>
    /\ cmd[i].config = ConfigByok
    /\ Replies(cmd[i].trace) = <<Reply(SettingsMsg(ConfigByok))>>

\* ------------------------------------------------ tool path and shutdown
\* C21: a generate_video invocation on an initialized plugin bypasses the
\* confirmation gate: it issues no "__confirm__" inject and exactly one
\* "__capability__" inject.
C21_ToolBypassesConfirmation ==
  \A j \in DOMAIN tool :
    LET f == tool[j] IN
      (f.name = "generate_video" /\ f.ctx # NoCtx) =>
        /\ Injects(f.trace, "__confirm__") = <<>>
        /\ Len(Dispatches(f)) = 1

C21_Witness ==
  \E j \in DOMAIN tool :
    /\ tool[j].name = "generate_video"
    /\ tool[j].pc = "done"
    /\ tool[j].result = Some(ToolResult(VideoUrl, FALSE))
    /\ Len(Dispatches(tool[j])) = 1

\* C23: once shutdown has cleared the context a chat invocation that began
\* before it issues no "__capability__" inject: no step taken while the
\* module's context is no longer the one the invocation started with adds
\* a dispatch to it, also when its confirmation then resolves affirmatively.
C23_NoDispatchAfterShutdown ==
  [][\A i \in DOMAIN cmd :
       (cmd[i].ctx # NoCtx /\ pluginCtx # cmd[i].ctx) =>
         Len(Dispatches(cmd'[i])) <= Len(Dispatches(cmd[i]))]_vars

\* C24: generate_video always resolves with a tool result and never
\* rejects, whatever the broker call settles to and also when shutdown
\* completes while that call is pending.
C24_ToolNeverRejects ==
  \A j \in DOMAIN tool :
    (tool[j].name = "generate_video" /\ tool[j].pc \notin {"idle", "capability"}) =>
      /\ tool[j].pc = "done"
      /\ IsSome(tool[j].result)
      /\ tool[j].result[1].isError \in BOOLEAN

\* the host calls the handler makes when it runs alone on the frame's own
\* tokens, configuration, confirmation answer and broker outcome, as far as
\* the frame has come
SoloTrace(i, f) ==
  LET started == handleVideoCommand(i, f.args, f.ctx, f.config)
      answered == IF started.pc = "confirm" /\ f.pc # "confirm"
                  THEN onConfirmation(started, f.confirmation)
                  ELSE started
      request == InjectCapability(ChatRequest(f.args, f.config), i)
  IN IF answered.pc # "progress" \/ f.pc = "progress" THEN answered.trace
     ELSE IF f.pc = "capability" THEN Append(answered.trace, request)
     ELSE Append(answered.trace, request) \o ChatOutcome(f.outcome[1])

\* C22: concurrent /video invocations are independent under every
\* interleaving of their awaited host calls: the host calls of an
\* invocation, its replies and its dispatched payload among them, are those
\* it makes alone on its own tokens, its own confirmation answer, its own
\* broker response and the configuration it read, whatever the other
\* invocation in flight does.
C22_InvocationsIndependent ==
  \A i \in DOMAIN cmd :
    cmd[i].pc # "idle" => cmd[i].trace = SoloTrace(i, cmd[i])

C22_Witness ==
  /\ DOMAIN cmd = PairSlots
  /\ cmd["c1"].pc = "capability"
  /\ cmd["c1"].args = <<"a", "cat", "dancing">>
  /\ cmd["c1"].config = ConfigByok
  /\ cmd["c2"].pc = "capability"
  /\ cmd["c2"].args = <<"a", "bird", "--duration", "10">>
  /\ cmd["c2"].config = ConfigEmpty
  /\ Input(cmd["c1"], 1).model = "wan-2.1"
  /\ Input(cmd["c2"], 1).duration = NumberOf("10")

\* ---------------------------------------------------------- round trips
ShutdownStep == pluginCtx # NoCtx /\ pluginCtx' = NoCtx
InitStep == pluginCtx = NoCtx /\ pluginCtx' # NoCtx
\* shutdown leaves the module variables as they were before any init, and
\* an init starts from them and registers on every provider of the host
RoundTrip ==
  /\ ShutdownStep =>
       /\ registeredProviderIds' = <<>>
       /\ cleanups' = <<>>
  /\ InitStep =>
       /\ registeredProviderIds = <<>>
       /\ cleanups = <<>>
       /\ registeredProviderIds' = ProviderList(channelProviders)
       /\ Len(cleanups') = 1
       /\ \A p \in channelProviders : calls'.registerCommand[p] = 1 /\ commands'[p]

\* C25 as stated: the lifecycle round-trips, every init registering the
\* command on every provider the host returns, and the shutdown that
\* follows unregisters each provider registered in that lifetime once.
C25_RoundTripUnregistersEach ==
  [][/\ RoundTrip
     /\ ShutdownStep =>
          \A p \in Providers :
            calls.registerCommand[p] > 0 => calls'.unregisterCommand[p] = 1]_vars

\* C25 amended: the lifecycle round-trips, every init registering the
\* command on every provider the host returns, and the shutdown that
\* follows unregisters once each provider registered in that lifetime that
\* the host still returns for its id, and calls no other provider.
C25_RoundTrip ==
  [][/\ RoundTrip
     /\ ShutdownStep =>
          \A p \in Providers :
            calls'.unregisterCommand[p] =
              IF calls.registerCommand[p] > 0 /\ p \in channelProviders THEN 1 ELSE 0]_vars

C25_Witness ==
  /\ epoch = 2
  /\ pluginCtx = NoCtx
  /\ registeredProviderIds = <<>>
  /\ cleanups = <<>>
  /\ \A p \in Providers :
       calls.registerCommand[p] = 1 /\ calls.unregisterCommand[p] = 1 /\ ~commands[p]

\* a step registers the command nowhere
NoRegistration ==
  /\ commands' = commands
  /\ registeredProviderIds' = registeredProviderIds
  /\ calls'.registerCommand = calls.registerCommand

\* C26: the late-join callback registers the /video command only on an
\* event of type "capability:providerRegistered" delivered while the plugin
\* is initialized, and then once on each provider of the host not yet
\* registered; on any other event, and on any event delivered after
\* shutdown, it calls registerCommand on no provider and leaves the
\* registered-provider list unchanged.
C26_LateJoinOnlyWhileInitialized ==
  [][\A type \in EventTypes :
       onProviderEvent(type) =>
         IF type = "capability:providerRegistered" /\ pluginCtx # NoCtx
         THEN \A p \in Providers :
                calls'.registerCommand[p] =
                  calls.registerCommand[p] +
                    (IF p \in channelProviders /\ p \notin Range(registeredProviderIds)
                     THEN 1 ELSE 0)
         ELSE NoRegistration]_vars

C26_Witness ==
  /\ event = Delivered("capability:providerRegistered", NoCtx)
  /\ pluginCtx = NoCtx
  /\ epoch = 1
  /\ registeredProviderIds = <<>>
  /\ \E p \in channelProviders : ~commands[p] /\ p \notin seen
====
